---- MODULE Spec2Model ----
(***************************************************************************)
(* A model of Grip (src/grip): the daily check-in store, the streak        *)
(* calculation, the daily question selection and the week review upsert.   *)
(*                                                                         *)
(* Dates.  A datetime.date object is the triple <<year, month, day>>.  An  *)
(* ISO date string ("2024-12-28", what the TEXT columns hold) is the       *)
(* sequence of its ten character codes, so that SQL's ORDER BY on a TEXT   *)
(* column is the lexicographic comparison it is in SQLite.                 *)
(***************************************************************************)
EXTENDS Integers, Sequences, FiniteSets, TLC

VARIABLES
    sk_dates,          \* _calculate_streak: the argument `dates`
    sk_streak,         \* _calculate_streak: <<the returned value>>, <<>> before the call
    questions,         \* table questions: sequence of rows in rowid order
    mt,                \* outputs of random.Random(seed), per seed, as far as drawn
    calls,             \* get_daily_questions calls made: date, store changed or not, result
    today,             \* the clock: date.today() / datetime.now()
    week_reviews,      \* table week_reviews: set of rows
    check_ins,         \* table check_ins: set of rows
    check_in_answers,  \* table check_in_answers: set of rows
    daily_tasks,       \* table daily_tasks: set of rows
    trackers,          \* table trackers: set of rows
    tracker_entries,   \* table tracker_entries: set of rows
    seq,               \* sqlite_sequence: last AUTOINCREMENT id handed out, per table
    response,          \* what the last request returned or raised
    goals,             \* table goals: set of rows
    goal_updates,      \* table goal_updates: set of rows
    goal_tasks,        \* table goal_tasks: set of rows
    insights,          \* table insights: set of rows
    conns,             \* the requests in flight, each on its own connection
    lock,              \* the connection holding the database's write lock, 0 if none
    entered,           \* history: last non-empty tracker value a committed request sent, per (tracker, date)
    saved              \* history: the q_ and type_ fields of the last committed save_checkin, per date

streakVars == <<sk_dates, sk_streak>>
questionVars == <<questions, mt, calls>>
goalVars == <<goals, goal_updates, goal_tasks, insights>>
storeVars == <<week_reviews, check_ins, check_in_answers, daily_tasks, trackers,
               tracker_entries, seq, goalVars>>
connVars == <<conns, lock>>
requestVars == <<today, response, entered, saved>>
vars == <<streakVars, questionVars, storeVars, connVars, requestVars>>

None == "None"

(***************************************************************************)
(* datetime.date                                                           *)
(***************************************************************************)
Years == 2024..2025

is_leap(y) == y % 4 = 0 /\ (y % 100 # 0 \/ y % 400 = 0)

DAYS_IN_MONTH == <<31, 28, 31, 30, 31, 30, 31, 31, 30, 31, 30, 31>>

days_in_month(y, m) == IF m = 2 /\ is_leap(y) THEN 29 ELSE DAYS_IN_MONTH[m]

days_before_year(y) ==
    LET y1 == y - 1 IN y1 * 365 + (y1 \div 4) - (y1 \div 100) + (y1 \div 400)

RECURSIVE days_before_month(_, _)
days_before_month(y, m) ==
    IF m = 1 THEN 0 ELSE days_before_month(y, m - 1) + days_in_month(y, m - 1)

\* date.toordinal(): 0001-01-01 is day 1
toordinal(d) == days_before_year(d[1]) + days_before_month(d[1], d[2]) + d[3]

AllDates == {d \in Years \X (1..12) \X (1..31) : d[3] <= days_in_month(d[1], d[2])}

OrdinalOf == [d \in AllDates |-> toordinal(d)]

DateAt == [n \in {OrdinalOf[d] : d \in AllDates} |-> CHOOSE d \in AllDates : OrdinalOf[d] = n]

\* date.fromordinal(n), for the years of the model
fromordinal(n) == DateAt[n]

\* date - timedelta(days=n)
minus_days(d, n) == fromordinal(OrdinalOf[d] - n)

\* the next calendar day (the clock's step)
plus_days(d, n) == fromordinal(OrdinalOf[d] + n)

Digit(n) == 48 + n

\* date.isoformat(): "YYYY-MM-DD"
isoformat(d) ==
    <<Digit(d[1] \div 1000), Digit((d[1] \div 100) % 10), Digit((d[1] \div 10) % 10),
      Digit(d[1] % 10), 45, Digit(d[2] \div 10), Digit(d[2] % 10), 45,
      Digit(d[3] \div 10), Digit(d[3] % 10)>>

\* date.fromisoformat(s)
fromisoformat(s) ==
    <<(s[1] - 48) * 1000 + (s[2] - 48) * 100 + (s[3] - 48) * 10 + (s[4] - 48),
      (s[6] - 48) * 10 + (s[7] - 48),
      (s[9] - 48) * 10 + (s[10] - 48)>>

\* comparison of two TEXT values (BINARY collation): a < b
RECURSIVE TextLess(_, _)
TextLess(a, b) ==
    IF b = <<>> THEN FALSE
    ELSE IF a = <<>> THEN TRUE
    ELSE IF a[1] # b[1] THEN a[1] < b[1]
    ELSE TextLess(Tail(a), Tail(b))

\* SELECT ... ORDER BY date DESC, over a set of distinct TEXT values
RECURSIVE OrderByDesc(_)
OrderByDesc(S) ==
    IF S = {} THEN <<>>
    ELSE LET top == CHOOSE x \in S : \A y \in S \ {x} : TextLess(y, x)
         IN <<top>> \o OrderByDesc(S \ {top})

(***************************************************************************)
(* _calculate_streak (web.py)                                              *)
(***************************************************************************)
\* line 87: the date is the expected one
IsExpected(check_date, current) == check_date = current

\* a fallback that never applies
IsDayBefore_never(check_date, current) == FALSE

\* line 90: the date is the day before the expected one
IsDayBefore(check_date, current) == check_date = minus_days(current, 1)

\* the for loop of lines 85-94, from position i with cursor `current`
RECURSIVE StreakLoop(_, _, _, _)
StreakLoop(dates, i, current, streak) ==
    IF i > Len(dates) THEN streak
    ELSE LET check_date == fromisoformat(dates[i]) IN
         IF IsExpected(check_date, current)
         THEN StreakLoop(dates, i + 1, minus_days(current, 1), streak + 1)
         ELSE IF IsDayBefore(check_date, current)
         THEN StreakLoop(dates, i + 1, minus_days(check_date, 1), streak + 1)
         ELSE streak

\* a streak that is counted back from the most recent check-in, whenever it was
calculate_streak_from_latest(dates, now) ==
    IF dates = <<>> THEN 0 ELSE StreakLoop(dates, 1, fromisoformat(dates[1]), 0)

calculate_streak(dates, now) ==
    IF dates = <<>> THEN 0 ELSE StreakLoop(dates, 1, now, 0)


(***************************************************************************)
(* Values of the variables a specification does not use                    *)
(***************************************************************************)
NoSequences ==
    [t \in {"week_reviews", "check_ins", "check_in_answers", "daily_tasks",
            "trackers", "tracker_entries", "goals", "goal_updates", "goal_tasks",
            "insights"} |-> 0]

IdleStreak == sk_dates = <<>> /\ sk_streak = <<>>

IdleQuestions == questions = <<>> /\ mt = <<>> /\ calls = {}

IdleGoals == goals = {} /\ goal_updates = {} /\ goal_tasks = {} /\ insights = {}

IdleStore ==
    /\ week_reviews = {} /\ check_ins = {} /\ check_in_answers = {}
    /\ daily_tasks = {} /\ trackers = {} /\ tracker_entries = {}
    /\ IdleGoals
    /\ seq = NoSequences

\* the day the clock starts on
Epoch == <<2024, 12, 29>>

\* no request in flight
IdleConns == conns = <<>> /\ lock = 0

IdleRequests ==
    response = [op |-> "none"] /\ entered = <<>> /\ saved = <<>> /\ IdleConns

(***************************************************************************)
(* SpecStreak: the dashboard's streak, over every set of completed         *)
(* check-ins of the days up to today                                       *)
(***************************************************************************)
StreakDays == 6

StreakEpoch == <<2024, 2, 26>>

StreakWindow == {plus_days(StreakEpoch, i) : i \in 1..StreakDays}

\* the rows save_checkin leaves for the days of S: ids in the order of the days
CheckInsOn(S) ==
    {[id |-> Cardinality({e \in S : OrdinalOf[e] <= OrdinalOf[d]}),
      date |-> isoformat(d), completed |-> 1] : d \in S}

InitStreak ==
    /\ today \in StreakWindow
    /\ \E S \in SUBSET {d \in StreakWindow : OrdinalOf[d] <= OrdinalOf[today]} :
          /\ check_ins = CheckInsOn(S)
          /\ seq = [NoSequences EXCEPT !["check_ins"] = Cardinality(S)]
    /\ week_reviews = {} /\ check_in_answers = {} /\ daily_tasks = {}
    /\ trackers = {} /\ tracker_entries = {}
    /\ IdleGoals
    /\ IdleRequests
    /\ IdleStreak /\ IdleQuestions

\* dashboard, web.py lines 56-61: the query and the call
DashboardStreak ==
    /\ sk_streak = <<>>
    /\ LET checkin_dates == OrderByDesc({r.date : r \in {c \in check_ins : c.completed = 1}})
       IN /\ sk_dates' = checkin_dates
          /\ sk_streak' = <<calculate_streak(checkin_dates, today)>>
    /\ UNCHANGED <<questionVars, storeVars, connVars, requestVars>>

NextStreak == DashboardStreak

SpecStreak == InitStreak /\ [][NextStreak]_vars

\* the dates of the argument, as date objects
StreakDates == {fromisoformat(sk_dates[i]) : i \in 1..Len(sk_dates)}

Yesterday == minus_days(today, 1)

\* the day the run of the contract ends on: today, or yesterday when today is absent
RunEnd == IF today \in StreakDates THEN today ELSE Yesterday

\* the length of the unbroken run of days in StreakDates that ends on RunEnd
RunLength ==
    Cardinality({k \in 1..Len(sk_dates) :
                    \A i \in 0..(k - 1) : minus_days(RunEnd, i) \in StreakDates})

\* C1: for every descending, duplicate-free list of completed check-in dates and
\* every today, the streak returned is the length of the unbroken run of consecutive
\* days that ends today (or yesterday when today is absent); a date behind a missing
\* day is never counted.
C1_StreakIsUnbrokenRun == sk_streak # <<>> => sk_streak = <<RunLength>>

IsConsecutive(dates) ==
    \A i \in 1..(Len(dates) - 1) :
        fromisoformat(dates[i + 1]) = minus_days(fromisoformat(dates[i]), 1)

\* C5: when the list is exactly k >= 1 consecutive days whose most recent day is
\* today, or is yesterday with today absent, the streak returned is k.
C5_ConsecutiveDaysCount ==
    (/\ sk_streak # <<>>
     /\ Len(sk_dates) >= 1
     /\ IsConsecutive(sk_dates)
     /\ fromisoformat(sk_dates[1]) \in {today, Yesterday})
    => sk_streak = <<Len(sk_dates)>>

\* three consecutive days ending yesterday were counted as a streak of 3
C5_Witness ==
    /\ sk_streak = <<3>>
    /\ Len(sk_dates) = 3
    /\ IsConsecutive(sk_dates)
    /\ fromisoformat(sk_dates[1]) = Yesterday

\* C6: the streak returned is 0 for the empty list and for every list whose most
\* recent date is earlier than yesterday, whatever older dates follow.
C6_StaleOrEmptyIsZero ==
    (/\ sk_streak # <<>>
     /\ \/ sk_dates = <<>>
        \/ OrdinalOf[fromisoformat(sk_dates[1])] < OrdinalOf[Yesterday])
    => sk_streak = <<0>>

\* a list of two consecutive days, the latest two days before today, gave 0
C6_Witness ==
    /\ sk_streak = <<0>>
    /\ Len(sk_dates) = 2
    /\ IsConsecutive(sk_dates)
    /\ fromisoformat(sk_dates[1]) = minus_days(today, 2)


(***************************************************************************)
(* get_daily_questions (questions.py)                                      *)
(*                                                                         *)
(* random.Random(seed) is a deterministic generator: the sequence of       *)
(* values it hands out is a function of the seed.  Which function (the     *)
(* Mersenne Twister) is left open: mt[seed] is the sequence of results of  *)
(* the successive _randbelow calls of a generator seeded with seed, fixed  *)
(* the first time a generator with that seed is used.                      *)
(***************************************************************************)
Min(a, b) == IF a < b THEN a ELSE b

\* a generator seeded from the clock of the call instead of the date
date_seed_unseeded(for_date) == Cardinality(calls)

\* line 13: int(for_date.strftime("%Y%m%d"))
date_seed(for_date) == for_date[1] * 10000 + for_date[2] * 100 + for_date[3]

\* a query that forgets the active flag
SelectDaily_any(table) ==
    SelectSeq(table, LAMBDA r : r.category = "daily")

\* lines 16-19: SELECT ... FROM questions WHERE category = 'daily' AND active = 1
SelectDaily(table) ==
    SelectSeq(table, LAMBDA r : r.category = "daily" /\ r.active = 1)

\* dict(r) of a selected row: the columns id, type, is_core (text left out)
RowDict(r) == [id |-> r.id, type |-> r.type, is_core |-> r.is_core]

RECURSIVE MapDict(_)
MapDict(rows) ==
    IF rows = <<>> THEN <<>> ELSE <<RowDict(Head(rows))>> \o MapDict(Tail(rows))

\* line 21
CoreOf(rows) == MapDict(SelectSeq(rows, LAMBDA r : r.is_core # 0))

\* line 22
PoolOf(rows) == MapDict(SelectSeq(rows, LAMBDA r : r.is_core = 0))

\* rng.randint(3, 5): 3 + _randbelow(3), the first value the generator hands out
randint_3_5(draws) == 3 + draws[1]

\* line 26
n_extra(draws, pool) == Min(randint_3_5(draws), Len(pool))

\* a selection that leaves the chosen item in the pool
Vacate_keep(pool, j, last) == pool

\* random.sample: pool[j] = pool[n - i - 1], the non-selected item moves into the vacancy
Vacate(pool, j, last) == [pool EXCEPT ![j] = pool[last]]

\* random.sample(population, k) for a population of at most 21 items: the loop
\* `for i in range(k): j = randbelow(n - i); result[i] = pool[j]; pool[j] = pool[n-i-1]`
\* (positions are 1-based here; js[i + 1] is the result of the i-th randbelow)
RECURSIVE SampleLoop(_, _, _, _, _)
SampleLoop(pool, i, k, js, result) ==
    IF i = k THEN result
    ELSE LET n == Len(pool)
             j == js[i + 1] + 1
         IN SampleLoop(Vacate(pool, j, n - i), i + 1, k, js, Append(result, pool[j]))

\* line 27: rng.sample(pool, n_extra), drawing the values after the first
sample(pool, k, draws) == SampleLoop(pool, 0, k, Tail(draws), <<>>)

\* the values a generator can hand out to steps i..k of sample over n items:
\* step i draws below n - i + 1
RECURSIVE SampleDraws(_, _, _)
SampleDraws(n, i, k) ==
    IF i > k THEN {<<>>}
    ELSE {<<j>> \o rest : j \in 0..(n - i), rest \in SampleDraws(n, i + 1, k)}

\* the values a generator can hand out to one call: one below 3 for randint,
\* then those of sample
DrawsFor(n) ==
    UNION {{<<r>> \o js : js \in SampleDraws(n, 1, Min(3 + r, n))} : r \in 0..2}

\* line 29
DailyResult(core, extra) == core \o extra

(***************************************************************************)
(* SpecQuestions: get_daily_questions over every small questions table     *)
(***************************************************************************)
MaxQuestions == 4

QuestionDates == {<<2024, 12, 31>>, <<2025, 1, 1>>}

\* the rows a table is made of (column text left out)
QuestionKinds ==
    {[type |-> "score", category |-> "daily", is_core |-> 1, active |-> 1],
     [type |-> "open", category |-> "daily", is_core |-> 0, active |-> 1],
     [type |-> "score", category |-> "daily", is_core |-> 0, active |-> 0],
     [type |-> "open", category |-> "weekly", is_core |-> 1, active |-> 1]}

WithIds(kinds) ==
    [i \in DOMAIN kinds |->
        [id |-> i, type |-> kinds[i].type, category |-> kinds[i].category,
         is_core |-> kinds[i].is_core, active |-> kinds[i].active]]

InitQuestions ==
    /\ \E n \in 0..MaxQuestions : \E kinds \in [1..n -> QuestionKinds] :
          questions = WithIds(kinds)
    /\ mt = <<>>
    /\ calls = {}
    /\ today = Epoch
    /\ IdleStreak /\ IdleStore /\ IdleRequests

\* get_daily_questions(db, for_date), lines 7-29, with the generator handing out draws
DailyQuestions(for_date, draws) ==
    LET rows == SelectDaily(questions)
        core == CoreOf(rows)
        pool == PoolOf(rows)
        extra == sample(pool, n_extra(draws, pool), draws)
    IN DailyResult(core, extra)

GetDailyQuestions(for_date) ==
    /\ questions' = questions
    /\ LET seed == date_seed(for_date)
           pool == PoolOf(SelectDaily(questions))
       IN \E draws \in IF seed \in DOMAIN mt THEN {mt[seed]} ELSE DrawsFor(Len(pool)) :
             /\ mt' = IF seed \in DOMAIN mt THEN mt ELSE (seed :> draws) @@ mt
             /\ calls' = calls \cup
                   {[date |-> for_date, changed |-> questions' # questions,
                     randint |-> randint_3_5(draws),
                     result |-> DailyQuestions(for_date, draws)]}
    /\ response' = [op |-> "get_daily_questions",
                    again |-> \E c \in calls : c.date = for_date]
    /\ UNCHANGED <<streakVars, storeVars, connVars, today, entered, saved>>

NextQuestions == \E d \in QuestionDates : GetDailyQuestions(d)

SpecQuestions == InitQuestions /\ [][NextQuestions]_vars


\* C2: get_daily_questions is a deterministic, side-effect-free function of (date,
\* stored question set): calls with the same date against the same questions table
\* return the same list in the same order, and no call changes a row of the store.
C2_DeterministicAndPure ==
    /\ \A c \in calls : ~c.changed
    /\ \A c1, c2 \in calls : c1.date = c2.date => c1.result = c2.result

\* a date was asked for a second time, and the list returned has sampled questions
C2_Witness ==
    /\ response.op = "get_daily_questions"
    /\ response.again
    /\ \E c \in calls : \E i \in DOMAIN c.result : c.result[i].is_core = 0

\* the active, non-core, daily questions of the table (their ids)
PoolIds ==
    {questions[i].id : i \in {j \in DOMAIN questions :
        /\ questions[j].category = "daily"
        /\ questions[j].active = 1
        /\ questions[j].is_core = 0}}

\* the active, core, daily questions of the table (their ids)
CoreIds ==
    {questions[i].id : i \in {j \in DOMAIN questions :
        /\ questions[j].category = "daily"
        /\ questions[j].active = 1
        /\ questions[j].is_core # 0}}

NonCorePart(result) == SelectSeq(result, LAMBDA q : q.is_core = 0)

\* C3: the non-core part of every result has size min(k, |pool|) for some k in
\* {3,4,5}, its elements are pairwise distinct and all belong to the pool of active,
\* non-core, daily questions.
C3_SampleOfPool ==
    \A c \in calls :
        LET extra == NonCorePart(c.result) IN
        /\ \E k \in 3..5 : Len(extra) = Min(k, Cardinality(PoolIds))
        /\ \A i, j \in DOMAIN extra : extra[i].id = extra[j].id => i = j
        /\ \A i \in DOMAIN extra : extra[i].id \in PoolIds

\* three questions were sampled out of a pool of four
C3_Witness ==
    /\ Cardinality(PoolIds) = 4
    /\ \E c \in calls : c.randint = 3 /\ Len(NonCorePart(c.result)) = 3

\* C4: every result holds every active core daily question exactly once, all of
\* them before any sampled non-core question, and no inactive or weekly question.
C4_CoreFirstActiveDailyOnly ==
    \A c \in calls :
        /\ \A q \in CoreIds :
              Cardinality({i \in DOMAIN c.result : c.result[i].id = q}) = 1
        /\ \A i, j \in DOMAIN c.result :
              (c.result[i].id \in CoreIds /\ c.result[j].id \notin CoreIds) => i < j
        /\ \A i \in DOMAIN c.result : c.result[i].id \in CoreIds \cup PoolIds

\* a result with a core question placed before a sampled one that precedes it in
\* the table, from a table that also holds an inactive and a weekly question
C4_Witness ==
    /\ \E i \in DOMAIN questions : questions[i].active = 0
    /\ \E i \in DOMAIN questions : questions[i].category = "weekly"
    /\ \E c \in calls : \E i, j \in DOMAIN c.result :
          /\ c.result[i].id \in CoreIds
          /\ c.result[j].id \in PoolIds
          /\ c.result[j].id < c.result[i].id


(***************************************************************************)
(* Values.  A form value is a string, or None where form.get finds no      *)
(* field (no form value of the model is the text "None").  A value stored  *)
(* in a column is [null], [int], [real] (in tenths) or [text].             *)
(***************************************************************************)
Null == [null |-> TRUE]
Integer(i) == [int |-> i]
Text(t) == [text |-> t]

\* the decimal literals among the strings of the model
IntLiterals == [t \in {"5", "7", "1"} |-> CASE t = "5" -> 5 [] t = "7" -> 7 [] t = "1" -> 1]

\* binding a Python value to a column of INTEGER affinity: None is NULL, a text
\* that is an integer literal is stored as that integer, any other text as text
IntegerColumn(v) ==
    IF v = None THEN Null
    ELSE IF v \in DOMAIN IntLiterals THEN Integer(IntLiterals[v])
    ELSE Text(v)

\* binding a Python value to a column of TEXT affinity
TextColumn(v) == IF v = None THEN Null ELSE Text(v)

(***************************************************************************)
(* datetime.isocalendar                                                    *)
(***************************************************************************)
isoweek1monday(year) ==
    LET firstday == toordinal(<<year, 1, 1>>)
        firstweekday == (firstday + 6) % 7
        week1monday == firstday - firstweekday
    IN IF firstweekday > 3 THEN week1monday + 7 ELSE week1monday

\* <<ISO year, ISO week>> of a date
isocalendar(d) ==
    LET ord == toordinal(d)
        week == (ord - isoweek1monday(d[1])) \div 7
    IN IF week < 0
       THEN <<d[1] - 1, ((ord - isoweek1monday(d[1] - 1)) \div 7) + 1>>
       ELSE IF week >= 52 /\ ord >= isoweek1monday(d[1] + 1)
       THEN <<d[1] + 1, 1>>
       ELSE <<d[1], week + 1>>

(***************************************************************************)
(* save_weekreview (web.py)                                                *)
(***************************************************************************)
\* lines 297-301: SELECT id FROM week_reviews WHERE year = ? AND week_number = ?
SelectWeekReview(table, year, week) ==
    {r \in table : r.year = year /\ r.week_number = week}

\* an update that replaces the row by a new one (INSERT OR REPLACE)
UpdateWeekReview_replace(table, id, next_id, f) ==
    {IF r.id = id
     THEN [r EXCEPT !.id = next_id,
                    !.score = IntegerColumn(f.score),
                    !.went_well = TextColumn(f.went_well),
                    !.improve = TextColumn(f.improve),
                    !.on_track_goals = IntegerColumn(f.on_track_goals),
                    !.priorities_next_week = TextColumn(f.priorities_next_week)]
     ELSE r : r \in table}

\* lines 304-309: UPDATE week_reviews SET ... WHERE id = ?
UpdateWeekReview(table, id, next_id, f) ==
    {IF r.id = id
     THEN [r EXCEPT !.score = IntegerColumn(f.score),
                    !.went_well = TextColumn(f.went_well),
                    !.improve = TextColumn(f.improve),
                    !.on_track_goals = IntegerColumn(f.on_track_goals),
                    !.priorities_next_week = TextColumn(f.priorities_next_week)]
     ELSE r : r \in table}

\* lines 311-315: INSERT INTO week_reviews (...) VALUES (...)
InsertWeekReview(table, next_id, year, week, f) ==
    table \cup {[id |-> next_id, year |-> year, week_number |-> week,
                 score |-> IntegerColumn(f.score),
                 went_well |-> TextColumn(f.went_well),
                 improve |-> TextColumn(f.improve),
                 on_track_goals |-> IntegerColumn(f.on_track_goals),
                 priorities_next_week |-> TextColumn(f.priorities_next_week)]}

\* the forms a client can post: lines 290-294 read these five fields
WeekForms ==
    [score : {None, "7", "x"}, went_well : {"", "a"}, improve : {"", "b"},
     on_track_goals : {None, "1"}, priorities_next_week : {"", "c"}]

\* save_weekreview, lines 282-320
SaveWeekreview(form) ==
    \E yw \in {isocalendar(today)} :
    \E existing \in {SelectWeekReview(week_reviews, yw[1], yw[2])} :
    LET next_id == seq["week_reviews"] + 1
    IN /\ IF existing # {}
          THEN /\ week_reviews' =
                    UpdateWeekReview(week_reviews, (CHOOSE r \in existing : TRUE).id,
                                     next_id, form)
               /\ seq' = seq
          ELSE /\ week_reviews' = InsertWeekReview(week_reviews, next_id, yw[1], yw[2], form)
               /\ seq' = [seq EXCEPT !["week_reviews"] = next_id]
       /\ response' = [op |-> "save_weekreview", form |-> form, status |-> "303",
                       updated |-> existing # {}]
       /\ UNCHANGED <<check_ins, check_in_answers, daily_tasks, trackers, tracker_entries>>
       /\ UNCHANGED <<streakVars, questionVars, goalVars, connVars, today, entered, saved>>

(***************************************************************************)
(* The clock                                                               *)
(***************************************************************************)
MaxDays == 2

DayNumber == OrdinalOf[today] - OrdinalOf[Epoch] + 1

\* midnight passes
Tick ==
    /\ DayNumber < MaxDays
    /\ today' = plus_days(today, 1)
    /\ UNCHANGED <<streakVars, questionVars, storeVars, connVars, response, entered, saved>>

(***************************************************************************)
(* SpecWeek: week reviews saved over the days around the turn of an ISO    *)
(* year                                                                    *)
(***************************************************************************)
InitWeek ==
    /\ today = Epoch
    /\ IdleStreak /\ IdleQuestions /\ IdleStore /\ IdleRequests

NextWeek ==
    \/ Tick
    \/ \E form \in WeekForms : SaveWeekreview(form)

SpecWeek == InitWeek /\ [][NextWeek]_vars

\* what a saved form leaves in the five columns
HoldsForm(r, f) ==
    /\ r.score = IntegerColumn(f.score)
    /\ r.went_well = TextColumn(f.went_well)
    /\ r.improve = TextColumn(f.improve)
    /\ r.on_track_goals = IntegerColumn(f.on_track_goals)
    /\ r.priorities_next_week = TextColumn(f.priorities_next_week)

\* C8: after any sequence of save_weekreview requests there is at most one
\* week_reviews row per (year, week_number); a save for a (year, week) that has a
\* row keeps that row (same id) and overwrites its score, went_well, improve,
\* on_track_goals and priorities_next_week with the submission; the rows of other
\* weeks are unchanged.
C8_WeekReviewUpsert ==
    [][(response'.op = "save_weekreview" /\ today' = today) =>
          LET f == response'.form
              yw == isocalendar(today)
              old == {r \in week_reviews : r.year = yw[1] /\ r.week_number = yw[2]}
              new == {r \in week_reviews' : r.year = yw[1] /\ r.week_number = yw[2]}
          IN /\ \A r1, r2 \in week_reviews' :
                   (r1.year = r2.year /\ r1.week_number = r2.week_number) => r1 = r2
             /\ Cardinality(new) = 1
             /\ \A r \in new : HoldsForm(r, f)
             /\ \A o \in old : \A r \in new : r.id = o.id
             /\ week_reviews' \ new = week_reviews \ old
      ]_vars

\* a review was saved over the existing row of its week while an earlier week
\* has a row of its own
C8_Witness ==
    /\ response.op = "save_weekreview"
    /\ response.updated
    /\ Cardinality(week_reviews) = 2
    /\ \E r \in week_reviews : r.score = Integer(7) /\ r.went_well = Text("a")


(***************************************************************************)
(* _seed_questions (database.py): the table init_db leaves at start-up     *)
(***************************************************************************)
\* lines 139-164, columns type, category, is_core (text left out)
SeedRows ==
    <<    <<"score", "daily", 1>>, <<"open", "daily", 1>>,
          <<"score", "daily", 0>>, <<"score", "daily", 0>>, <<"score", "daily", 0>>,
          <<"score", "daily", 0>>, <<"score", "daily", 0>>,
          <<"open", "daily", 0>>, <<"open", "daily", 0>>, <<"open", "daily", 0>>,
          <<"open", "daily", 0>>, <<"open", "daily", 0>>, <<"open", "daily", 0>>,
          <<"open", "daily", 0>>, <<"open", "daily", 0>>,
          <<"score", "weekly", 1>>, <<"open", "weekly", 1>>, <<"open", "weekly", 1>>,
          <<"score", "weekly", 1>>, <<"open", "weekly", 1>> >>

\* lines 166-169: ids from AUTOINCREMENT, active by its DEFAULT 1
SeedQuestions ==
    [i \in DOMAIN SeedRows |->
        [id |-> i, type |-> SeedRows[i][1], category |-> SeedRows[i][2],
         is_core |-> SeedRows[i][3], active |-> 1]]

(***************************************************************************)
(* A connection (database.py get_db, and the sqlite3 module's implicit     *)
(* transaction): the statements of a handler work on tx, a copy of the     *)
(* committed tables; db.commit() makes tx the committed store; an          *)
(* exception leaves the handler through `finally: await db.close()`, which *)
(* rolls the open transaction back.  tx.error names the exception raised,  *)
(* "" while none is; a statement after an exception is not executed.       *)
(***************************************************************************)
Real(tenths) == [real |-> tenths]

\* float() of the strings of the model, in tenths
FloatLiterals == [t \in {"5", "7"} |-> CASE t = "5" -> 50 [] t = "7" -> 70]

Begin ==
    [check_ins |-> check_ins, check_in_answers |-> check_in_answers,
     daily_tasks |-> daily_tasks, tracker_entries |-> tracker_entries,
     seq |-> seq, error |-> "", writes |-> 0]

Raise(tx, exception) == [tx EXCEPT !.error = exception]

\* the elements of a set of numbers, ascending
RECURSIVE Ascending(_)
Ascending(S) ==
    IF S = {} THEN <<>>
    ELSE LET least == CHOOSE x \in S : \A y \in S : x <= y
         IN <<least>> \o Ascending(S \ {least})

(***************************************************************************)
(* save_checkin (web.py)                                                   *)
(***************************************************************************)
\* an INSERT into a check_ins table whose date column is not UNIQUE
InsertCheckIn_nonunique(tx, date) ==
    LET id == tx.seq["check_ins"] + 1 IN
    [tx EXCEPT !.check_ins = @ \cup {[id |-> id, date |-> date, completed |-> 1]},
               !.seq["check_ins"] = id,
               !.writes = @ + 1]

\* lines 163-166: INSERT INTO check_ins (date, completed) VALUES (?, 1), with the
\* UNIQUE constraint of database.py line 20
InsertCheckIn(tx, date) ==
    LET id == tx.seq["check_ins"] + 1 IN
    IF \E c \in tx.check_ins : c.date = date
    THEN Raise(tx, "IntegrityError")
    ELSE [tx EXCEPT !.check_ins = @ \cup {[id |-> id, date |-> date, completed |-> 1]},
                    !.seq["check_ins"] = id,
                    !.writes = @ + 1]

\* a handler that keeps the old answers
DeleteAnswers_none(tx, checkin_id) == [tx EXCEPT !.writes = @ + 1]

\* lines 159-161: DELETE FROM check_in_answers WHERE check_in_id = ?
DeleteAnswers(tx, checkin_id) ==
    [tx EXCEPT !.check_in_answers = {a \in @ : a.check_in_id # checkin_id},
               !.writes = @ + 1]

\* INSERT INTO check_in_answers, with the foreign keys of database.py lines 27-28
\* enforced (PRAGMA foreign_keys=ON, line 119)
InsertAnswer(tx, checkin_id, question_id, answer_text, answer_score) ==
    LET id == tx.seq["check_in_answers"] + 1 IN
    IF \/ ~\E c \in tx.check_ins : c.id = checkin_id
       \/ ~\E i \in DOMAIN questions : questions[i].id = question_id
    THEN Raise(tx, "IntegrityError")
    ELSE [tx EXCEPT !.check_in_answers = @ \cup
                        {[id |-> id, check_in_id |-> checkin_id,
                          question_id |-> question_id,
                          answer_text |-> answer_text, answer_score |-> answer_score]},
                    !.seq["check_in_answers"] = id,
                    !.writes = @ + 1]

\* lines 172-184: one q_ field
StoreAnswer(tx, form, checkin_id, question_id) ==
    LET value == form.q[question_id]
        qtype == IF question_id \in DOMAIN form.type THEN form.type[question_id] ELSE "open"
    IN IF qtype = "score" /\ value # ""
       THEN IF value \in DOMAIN IntLiterals
            THEN InsertAnswer(tx, checkin_id, question_id, Null, Integer(IntLiterals[value]))
            ELSE Raise(tx, "ValueError")
       ELSE IF value # ""
       THEN InsertAnswer(tx, checkin_id, question_id, Text(value), Null)
       ELSE tx

\* lines 169-184: the q_ fields; the forms list them in the order of their ids
RECURSIVE AnswersLoop(_, _, _, _)
AnswersLoop(tx, form, checkin_id, keys) ==
    IF keys = <<>> \/ tx.error # "" THEN tx
    ELSE AnswersLoop(StoreAnswer(tx, form, checkin_id, Head(keys)), form, checkin_id,
                     Tail(keys))

\* lines 190-193: UPDATE daily_tasks SET completed = 1, check_in_id = ? WHERE id = ?
CompleteTask(tx, checkin_id, task_id) ==
    [tx EXCEPT !.daily_tasks =
                   {IF t.id = task_id
                    THEN [t EXCEPT !.completed = 1, !.check_in_id = Integer(checkin_id)]
                    ELSE t : t \in @},
               !.writes = @ + 1]

\* lines 187-193: the task_ fields
RECURSIVE TasksLoop(_, _, _)
TasksLoop(tx, checkin_id, keys) ==
    IF keys = <<>> \/ tx.error # "" THEN tx
    ELSE TasksLoop(CompleteTask(tx, checkin_id, Head(keys)), checkin_id, Tail(keys))

\* an upsert that keeps the value already there (ON CONFLICT DO NOTHING)
UpsertEntry_ignore(tx, tracker_id, date, value) ==
    LET id == tx.seq["tracker_entries"] + 1
        hit == {e \in tx.tracker_entries : e.tracker_id = tracker_id /\ e.date = date}
    IN IF hit # {} THEN [tx EXCEPT !.writes = @ + 1]
       ELSE IF ~\E t \in trackers : t.id = tracker_id
       THEN Raise(tx, "IntegrityError")
       ELSE [tx EXCEPT !.tracker_entries = @ \cup
                           {[id |-> id, tracker_id |-> tracker_id, date |-> date,
                             value |-> value]},
                       !.seq["tracker_entries"] = id,
                       !.writes = @ + 1]

\* lines 200-205: INSERT INTO tracker_entries ... ON CONFLICT(tracker_id, date)
\* DO UPDATE SET value = ?, with the foreign key of database.py line 97 enforced
UpsertEntry(tx, tracker_id, date, value) ==
    LET id == tx.seq["tracker_entries"] + 1
        hit == {e \in tx.tracker_entries : e.tracker_id = tracker_id /\ e.date = date}
    IN IF hit # {}
       THEN [tx EXCEPT !.tracker_entries =
                           {IF e \in hit THEN [e EXCEPT !.value = value] ELSE e : e \in @},
                       !.writes = @ + 1]
       ELSE IF ~\E t \in trackers : t.id = tracker_id
       THEN Raise(tx, "IntegrityError")
       ELSE [tx EXCEPT !.tracker_entries = @ \cup
                           {[id |-> id, tracker_id |-> tracker_id, date |-> date,
                             value |-> value]},
                       !.seq["tracker_entries"] = id,
                       !.writes = @ + 1]

\* lines 197-205: one tracker_ field
StoreEntry(tx, form, date, tracker_id) ==
    LET value == form.tracker[tracker_id] IN
    IF value = "" THEN tx
    ELSE IF value \in DOMAIN FloatLiterals
    THEN UpsertEntry(tx, tracker_id, date, Real(FloatLiterals[value]))
    ELSE Raise(tx, "ValueError")

\* lines 196-205: the tracker_ fields
RECURSIVE TrackersLoop(_, _, _, _)
TrackersLoop(tx, form, date, keys) ==
    IF keys = <<>> \/ tx.error # "" THEN tx
    ELSE TrackersLoop(StoreEntry(tx, form, date, Head(keys)), form, date, Tail(keys))

\* lines 208-210: UPDATE check_ins SET completed = 1 WHERE id = ?
MarkCompleted(tx, checkin_id) ==
    IF tx.error # "" THEN tx
    ELSE [tx EXCEPT !.check_ins =
                        {IF c.id = checkin_id THEN [c EXCEPT !.completed = 1] ELSE c : c \in @},
                    !.writes = @ + 1]

\* lines 154-166: the check-in of the day, found or made; <<tx, checkin_id>>
FindOrInsertCheckIn(tx, date) ==
    LET row == {c \in tx.check_ins : c.date = date} IN
    IF row # {}
    THEN LET checkin_id == (CHOOSE c \in row : TRUE).id
         IN <<DeleteAnswers(tx, checkin_id), checkin_id>>
    ELSE <<InsertCheckIn(tx, date), tx.seq["check_ins"] + 1>>

\* lines 150-210: the statements of save_checkin up to the commit
CheckinStatements(form, date) ==
    LET found == FindOrInsertCheckIn(Begin, date)
        checkin_id == found[2]
        answered == AnswersLoop(found[1], form, checkin_id, Ascending(DOMAIN form.q))
        ticked == TasksLoop(answered, checkin_id, Ascending(form.task))
        tracked == TrackersLoop(ticked, form, date, Ascending(DOMAIN form.tracker))
    IN MarkCompleted(tracked, checkin_id)

\* a handler that commits in its finally clause
Close_commit(tx) == tx

\* lines 214-215, after an exception: db.close() rolls the transaction back
Close(tx) == Begin


\* the history of the non-empty tracker_ values of a form, added to h
WithTrackerValues(h, form, date) ==
    LET sent == {t \in DOMAIN form.tracker : form.tracker[t] # ""}
    IN [k \in {<<t, date>> : t \in sent} |-> form.tracker[k[1]]] @@ h

\* the non-empty q_ fields of a form, each with the type_ field sent for it
NonEmptyAnswers(form) ==
    {<<k, IF k \in DOMAIN form.type THEN form.type[k] ELSE "open", form.q[k]>> :
        k \in {j \in DOMAIN form.q : form.q[j] # ""}}

MaxAnswers == 3

\* save_checkin, lines 146-215
SaveCheckin(form) ==
    \E date \in {isoformat(today)} : \E tx \in {CheckinStatements(form, date)} :
    LET ok == tx.error = ""
        end == IF ok THEN tx ELSE Close(tx)
    IN /\ tx.seq["check_in_answers"] <= MaxAnswers
       /\ check_ins' = end.check_ins
       /\ check_in_answers' = end.check_in_answers
       /\ daily_tasks' = end.daily_tasks
       /\ tracker_entries' = end.tracker_entries
       /\ seq' = end.seq
       /\ response' = [op |-> "save_checkin",
                       status |-> IF ok THEN "303" ELSE tx.error,
                       writes |-> tx.writes]
       /\ entered' = IF ok THEN WithTrackerValues(entered, form, date) ELSE entered
       /\ saved' = IF ok THEN (date :> NonEmptyAnswers(form)) @@ saved ELSE saved
       /\ UNCHANGED <<week_reviews, trackers, today>>
       /\ UNCHANGED <<streakVars, questionVars, goalVars, connVars>>

(***************************************************************************)
(* create_tracker, delete_tracker (web.py)                                 *)
(***************************************************************************)
\* str.strip() of the strings of the model
Strip(t) == IF t = " " THEN "" ELSE t

MaxTrackers == 1

\* create_tracker, lines 606-629
CreateTracker(form) ==
    LET name == Strip(form.name)
        id == seq["trackers"] + 1
        orders == {t.sort_order : t \in trackers}
        next_order == IF orders = {} THEN 0
                      ELSE (CHOOSE o \in orders : \A x \in orders : x <= o) + 1
    IN /\ seq["trackers"] < MaxTrackers
       /\ IF name = ""
          THEN UNCHANGED <<trackers, seq>>
          ELSE /\ trackers' = trackers \cup
                     {[id |-> id, name |-> name, unit |-> Strip(form.unit),
                       type |-> form.type, active |-> 1, sort_order |-> next_order]}
               /\ seq' = [seq EXCEPT !["trackers"] = id]
       /\ response' = [op |-> "create_tracker", status |-> "303", arg |-> form.name]
       /\ UNCHANGED <<week_reviews, check_ins, check_in_answers, daily_tasks,
                      tracker_entries>>
       /\ UNCHANGED <<streakVars, questionVars, goalVars, connVars, today, entered, saved>>

\* delete_tracker, lines 646-654; the entries go with the tracker
\* (database.py line 97, ON DELETE CASCADE)
DeleteTracker(tracker_id) ==
    /\ trackers' = {t \in trackers : t.id # tracker_id}
    /\ tracker_entries' =
          IF \E t \in trackers : t.id = tracker_id
          THEN {e \in tracker_entries : e.tracker_id # tracker_id}
          ELSE tracker_entries
    /\ response' = [op |-> "delete_tracker", status |-> "200", arg |-> tracker_id]
    /\ UNCHANGED <<week_reviews, check_ins, check_in_answers, daily_tasks, seq>>
    /\ UNCHANGED <<streakVars, questionVars, goalVars, connVars, today, entered, saved>>

(***************************************************************************)
(* Spec: check-ins saved over the days                                     *)
(***************************************************************************)
\* the q_ and type_ fields of the forms: question 1 is a score question, 2 and 8
\* are open ones, 21 is the id of no question
FormAnswers ==
    {[q |-> <<>>, type |-> <<>>],
     [q |-> (1 :> "5"), type |-> (1 :> "score")],
     [q |-> (1 :> "x"), type |-> (1 :> "score")],
     [q |-> (1 :> "7") @@ (2 :> "a") @@ (8 :> ""),
      type |-> (1 :> "score") @@ (2 :> "open") @@ (8 :> "open")],
     [q |-> (1 :> "5") @@ (21 :> "a"), type |-> (1 :> "score")]}

\* the task_ fields of the forms
FormTasks == {{}, {1}}

\* the tracker_ fields of the forms: tracker 1 may exist, tracker 2 does not
FormTrackers == {<<>>, (1 :> "5"), (1 :> "7") @@ (2 :> "x")}

CheckinForms ==
    {[q |-> a.q, type |-> a.type, task |-> k, tracker |-> t] :
        a \in FormAnswers, k \in FormTasks, t \in FormTrackers}

TrackerForms == [name : {"", " ", "steps"}, unit : {""}, type : {"number"}]

\* the rows create_tracker (web.py lines 619-623) and add_daily_task (lines 553-556)
\* leave for the first tracker and the first task of the epoch
FirstTracker ==
    [id |-> 1, name |-> "steps", unit |-> "", type |-> "number", active |-> 1,
     sort_order |-> 0]

FirstTask ==
    [id |-> 1, title |-> "call", date |-> isoformat(Epoch), completed |-> 0,
     check_in_id |-> Null]

\* the application after init_db, with or without a tracker and a task made before
\* the first check-in
Init ==
    /\ today = Epoch
    /\ questions = SeedQuestions
    /\ mt = <<>> /\ calls = {}
    /\ IdleStreak /\ IdleRequests
    /\ week_reviews = {} /\ check_ins = {} /\ check_in_answers = {}
    /\ tracker_entries = {}
    /\ IdleGoals
    /\ \E made \in BOOLEAN :
          /\ trackers = IF made THEN {FirstTracker} ELSE {}
          /\ daily_tasks = IF made THEN {FirstTask} ELSE {}
    /\ seq = [t \in DOMAIN NoSequences |->
                 CASE t = "trackers" -> Cardinality(trackers)
                   [] t = "daily_tasks" -> Cardinality(daily_tasks)
                   [] OTHER -> 0]

Next ==
    \/ Tick
    \/ \E form \in CheckinForms : SaveCheckin(form)

Spec == Init /\ [][Next]_vars

AnswersOf(c) == {a \in check_in_answers : a.check_in_id = c.id}

\* the columns a non-empty q_ field <<question_id, type, value>> is to leave
ExpectedAnswer(s) ==
    IF s[2] = "score" THEN <<s[1], Null, Integer(IntLiterals[s[3]])>>
    ELSE <<s[1], Text(s[3]), Null>>

OneCheckInPerDate ==
    /\ \A c1, c2 \in check_ins : c1.date = c2.date => c1 = c2
    /\ \A c \in check_ins : c.completed = 1
    /\ \A a \in check_in_answers : \E c \in check_ins : a.check_in_id = c.id
    /\ \A c \in check_ins :
          /\ c.date \in DOMAIN saved
          /\ {<<a.question_id, a.answer_text, a.answer_score>> : a \in AnswersOf(c)}
                = {ExpectedAnswer(s) : s \in saved[c.date]}
          /\ Cardinality(AnswersOf(c)) = Cardinality(saved[c.date])

\* C9: after any sequence of save_checkin requests there is at most one check_ins
\* row per date and it is marked completed; a save for a date that has a check-in
\* keeps that row (same id and date), and the check_in_answers of a check-in are
\* exactly the non-empty q_ answers of the most recent successful save for its
\* date, with no answer of an earlier save left.
C9_OneCheckInPerDateLatestAnswers ==
    /\ []OneCheckInPerDate
    /\ [][\A c \in check_ins : \E k \in check_ins' : k.id = c.id /\ k.date = c.date]_vars

\* a successful save replaced the answers of an earlier save of the same day while
\* the check-in of the day before kept its own
C9_Witness ==
    /\ response.op = "save_checkin" /\ response.status = "303"
    /\ Cardinality(check_ins) = 2
    /\ \E c \in check_ins :
          /\ c.date = isoformat(today)
          /\ AnswersOf(c) # {}
          /\ \A a \in AnswersOf(c) : a.id > Cardinality(check_in_answers)
    /\ \E c \in check_ins : c.date # isoformat(today) /\ AnswersOf(c) # {}

\* C10: a save_checkin request that raises after its first write hands the error
\* to the caller and leaves the committed store as it was before the request: no
\* check-in row, answer deletion, answer, task update or tracker entry of the
\* request is visible.
C10_FailedSaveLeavesStore ==
    [][(response'.op = "save_checkin" /\ today' = today /\ response'.status # "303")
          => /\ response'.status \in {"ValueError", "IntegrityError"}
             /\ storeVars' = storeVars]_vars

\* a request failed after it deleted the answers of the day, stored an answer,
\* ticked a task and updated a tracker entry, and all of these are still as before
C10_Witness ==
    /\ response.op = "save_checkin"
    /\ response.status = "ValueError"
    /\ response.writes >= 4
    /\ \E c \in check_ins : c.date = isoformat(today) /\ AnswersOf(c) # {}
    /\ \E t \in daily_tasks : t.completed = 0
    /\ \E e \in tracker_entries : e.date = isoformat(today) /\ e.value = Real(50)

(***************************************************************************)
(* SpecTrackers: tracker values entered with the check-ins while trackers  *)
(* are created and deleted                                                 *)
(***************************************************************************)
\* the forms: a tracker_ field for tracker 1 (and tracker 2), alone or next to a
\* score that is no integer
TrackerCheckinForms ==
    {[q |-> a.q, type |-> a.type, task |-> {}, tracker |-> t] :
        a \in {[q |-> <<>>, type |-> <<>>],
               [q |-> (1 :> "x"), type |-> (1 :> "score")]},
        t \in {<<>>, (1 :> "5"), (1 :> "7"), (1 :> ""), (1 :> "x"),
               (1 :> "5") @@ (2 :> "5")}}

InitTrackers ==
    /\ today = Epoch
    /\ questions = SeedQuestions
    /\ mt = <<>> /\ calls = {}
    /\ IdleStreak /\ IdleStore /\ IdleRequests

NextTrackers ==
    \/ Tick
    \/ \E form \in TrackerCheckinForms : SaveCheckin(form)
    \/ \E form \in TrackerForms : CreateTracker(form)
    \/ \E tracker_id \in 1..(MaxTrackers + 1) : DeleteTracker(tracker_id)

SpecTrackers == InitTrackers /\ [][NextTrackers]_vars

EntriesOf(tracker_id, date) ==
    {e \in tracker_entries : e.tracker_id = tracker_id /\ e.date = date}

\* C7 (as amended): there is at most one tracker_entries row per (tracker, date),
\* and the row of a tracker and a date holds the value of the most recent
\* save_checkin request that committed and submitted a non-empty value for that
\* tracker on that date; a request that failed leaves the row as it was.
C7_EntryOfLastCommittedSave ==
    /\ \A e1, e2 \in tracker_entries :
          (e1.tracker_id = e2.tracker_id /\ e1.date = e2.date) => e1 = e2
    /\ \A e \in tracker_entries :
          /\ <<e.tracker_id, e.date>> \in DOMAIN entered
          /\ e.value = Real(FloatLiterals[entered[<<e.tracker_id, e.date>>]])
    /\ \A k \in DOMAIN entered :
          (\E t \in trackers : t.id = k[1]) => EntriesOf(k[1], k[2]) # {}

\* 7 was committed for the tracker today, and a later request that wrote 5 over it
\* failed at its next tracker_ field: one row, with value 7
C7_Witness ==
    /\ response.op = "save_checkin" /\ response.status = "IntegrityError"
    /\ response.writes >= 2
    /\ \E e \in tracker_entries :
          /\ e.date = isoformat(today) /\ e.value = Real(70)
          /\ EntriesOf(e.tracker_id, e.date) = {e}

\* C7 (as stated): after a save_checkin request that submitted a non-empty value
\* for a tracker, the one row of that tracker and today holds that value.
C7_EntryOfLastRequest ==
    [][\A form \in TrackerCheckinForms :
          SaveCheckin(form) =>
             \A t \in trackers :
                (t.id \in DOMAIN form.tracker /\ form.tracker[t.id] \in DOMAIN FloatLiterals)
                   => \E e \in tracker_entries' :
                         /\ e.tracker_id = t.id /\ e.date = isoformat(today)
                         /\ e.value = Real(FloatLiterals[form.tracker[t.id]])
      ]_vars

(***************************************************************************)
(* Goals and goal tasks (web.py).  The created_at and updated_at columns   *)
(* are left out of the rows.                                               *)
(***************************************************************************)
MaxGoals == 2

MaxGoalTasks == 3

\* the rows any statement leaves alone
OtherTables ==
    <<week_reviews, check_ins, check_in_answers, daily_tasks, trackers, tracker_entries>>

\* the exception create_goal raises before or in its INSERT, "" if none:
\* form["title"], form["type"], form["year"] (lines 437-441), int() (line 441),
\* the CHECK constraints of database.py lines 50-51
CreateGoalError(form) ==
    IF form.title = None \/ form.type = None \/ form.year = None THEN "KeyError"
    ELSE IF form.year \notin DOMAIN IntLiterals THEN "ValueError"
    ELSE IF form.type \notin {"yearly", "quarterly"} THEN "IntegrityError"
    ELSE IF form.quarter \notin {None, "", "Q1", "Q2", "Q3", "Q4"} THEN "IntegrityError"
    ELSE ""

\* create_goal, lines 429-447
CreateGoal(form) ==
    LET id == seq["goals"] + 1
        error == CreateGoalError(form)
    IN /\ seq["goals"] < MaxGoals
       /\ IF error = ""
          THEN /\ goals' = goals \cup
                     {[id |-> id, title |-> form.title,
                       description |-> IF form.description = None THEN ""
                                       ELSE form.description,
                       type |-> form.type,
                       quarter |-> IF form.quarter \in {None, ""} THEN None
                                   ELSE form.quarter,
                       year |-> IntLiterals[form.year], status |-> "active"]}
               /\ seq' = [seq EXCEPT !["goals"] = id]
          ELSE UNCHANGED <<goals, seq>>
       /\ response' = [op |-> "create_goal", status |-> IF error = "" THEN "303" ELSE error,
                       arg |-> form.title]
       /\ UNCHANGED <<OtherTables, goal_updates, goal_tasks, insights>>
       /\ UNCHANGED <<streakVars, questionVars, connVars, today, entered, saved>>

\* update_goal, lines 450-470: data holds some of title, description, status
UpdateGoal(goal_id, data) ==
    LET hit == {g \in goals : g.id = goal_id}
        bad == /\ hit # {} /\ "status" \in DOMAIN data
               /\ data["status"] \notin {"active", "completed", "abandoned"}
        set(g) == [k \in DOMAIN g |->
                      IF k \in DOMAIN data /\ k \in {"title", "description", "status"}
                      THEN data[k] ELSE g[k]]
    IN /\ goals' = IF bad THEN goals
                   ELSE {IF g \in hit THEN set(g) ELSE g : g \in goals}
       /\ response' = [op |-> "update_goal",
                       status |-> IF bad THEN "IntegrityError" ELSE "200",
                       arg |-> goal_id]
       /\ UNCHANGED <<OtherTables, goal_updates, goal_tasks, insights, seq>>
       /\ UNCHANGED <<streakVars, questionVars, connVars, today, entered, saved>>

\* add_goal_update, lines 473-486, with the foreign key of database.py line 60
AddGoalUpdate(goal_id, form) ==
    LET id == seq["goal_updates"] + 1
        found == \E g \in goals : g.id = goal_id
    IN /\ IF found
          THEN /\ goal_updates' = goal_updates \cup
                     {[id |-> id, goal_id |-> goal_id, note |-> form.note]}
               /\ seq' = [seq EXCEPT !["goal_updates"] = id]
          ELSE UNCHANGED <<goal_updates, seq>>
       /\ response' = [op |-> "add_goal_update",
                       status |-> IF found THEN "303" ELSE "IntegrityError",
                       arg |-> goal_id]
       /\ UNCHANGED <<OtherTables, goals, goal_tasks, insights>>
       /\ UNCHANGED <<streakVars, questionVars, connVars, today, entered, saved>>

\* lines 501-505: SELECT COALESCE(MAX(sort_order), -1) + 1 FROM goal_tasks
\* WHERE goal_id = ?
NextSortOrder(table, goal_id) ==
    LET orders == {t.sort_order : t \in {r \in table : r.goal_id = goal_id}}
    IN IF orders = {} THEN 0
       ELSE (CHOOSE o \in orders : \A x \in orders : x <= o) + 1

\* lines 506-509: INSERT INTO goal_tasks (goal_id, title, sort_order)
InsertGoalTask(table, id, goal_id, title, sort_order) ==
    table \cup {[id |-> id, goal_id |-> goal_id, title |-> title, completed |-> 0,
                 sort_order |-> sort_order]}

\* add_goal_task, lines 492-513, run from its first statement to its commit with
\* no other request in between; the foreign key is that of database.py line 69
AddGoalTask(goal_id, form) ==
    LET title == Strip(form.title)
        id == seq["goal_tasks"] + 1
        found == \E g \in goals : g.id = goal_id
    IN /\ seq["goal_tasks"] < MaxGoalTasks
       /\ IF title # "" /\ found
          THEN /\ goal_tasks' = InsertGoalTask(goal_tasks, id, goal_id, title,
                                               NextSortOrder(goal_tasks, goal_id))
               /\ seq' = [seq EXCEPT !["goal_tasks"] = id]
          ELSE UNCHANGED <<goal_tasks, seq>>
       /\ response' = [op |-> "add_goal_task",
                       status |-> IF title = "" THEN "303"
                                  ELSE IF found THEN "303" ELSE "IntegrityError",
                       arg |-> goal_id, title |-> form.title]
       /\ UNCHANGED <<OtherTables, goals, goal_updates, insights>>
       /\ UNCHANGED <<streakVars, questionVars, connVars, today, entered, saved>>

\* lines 520-523: UPDATE goal_tasks SET completed = CASE WHEN completed = 0 THEN 1
\* ELSE 0 END WHERE id = ?
ToggleCompleted(table, id) ==
    {IF r.id = id THEN [r EXCEPT !.completed = IF @ = 0 THEN 1 ELSE 0] ELSE r : r \in table}

\* toggle_goal_task, lines 516-527
ToggleGoalTask(task_id) ==
    /\ goal_tasks' = ToggleCompleted(goal_tasks, task_id)
    /\ response' = [op |-> "toggle_goal_task", status |-> "200", arg |-> task_id]
    /\ UNCHANGED <<OtherTables, goals, goal_updates, insights, seq>>
    /\ UNCHANGED <<streakVars, questionVars, connVars, today, entered, saved>>

\* a DELETE that takes the later tasks of the goal along
DeleteRow_after(table, id) ==
    {r \in table : \A d \in table : d.id = id => r.id < d.id}

\* line 534: DELETE FROM goal_tasks WHERE id = ?
DeleteRow(table, id) == {r \in table : r.id # id}

\* delete_goal_task, lines 530-538
DeleteGoalTask(task_id) ==
    /\ goal_tasks' = DeleteRow(goal_tasks, task_id)
    /\ response' = [op |-> "delete_goal_task", status |-> "200", arg |-> task_id]
    /\ UNCHANGED <<OtherTables, goals, goal_updates, insights, seq>>
    /\ UNCHANGED <<streakVars, questionVars, connVars, today, entered, saved>>

(***************************************************************************)
(* SpecGoals: goals made, tasks added to them, ticked and deleted          *)
(***************************************************************************)
\* the forms of create_goal: the title missing, blank or given
GoalForms ==
    [title : {None, "", "run"}, description : {""}, type : {"yearly"},
     quarter : {""}, year : {"7"}]

\* the forms of add_goal_task
GoalTaskForms == [title : {"", " ", "a"}]

InitGoals ==
    /\ today = Epoch
    /\ questions = SeedQuestions
    /\ mt = <<>> /\ calls = {}
    /\ IdleStreak /\ IdleStore /\ IdleRequests

NextGoals ==
    \/ \E form \in GoalForms : CreateGoal(form)
    \/ \E goal_id \in 1..MaxGoals : \E form \in GoalTaskForms : AddGoalTask(goal_id, form)
    \/ \E task_id \in 1..(MaxGoalTasks + 1) : ToggleGoalTask(task_id)
    \/ \E task_id \in 1..(MaxGoalTasks + 1) : DeleteGoalTask(task_id)

SpecGoals == InitGoals /\ [][NextGoals]_vars

\* C11: delete_goal_task(task_id) removes exactly the goal_tasks row with that id;
\* every other task keeps its goal, sort_order, title and completed flag, so the
\* relative order of the siblings is as before, and the goals and all other tables
\* are untouched.
C11_DeleteGoalTaskRemovesOneRow ==
    [][response'.op = "delete_goal_task" =>
          LET gone == {r \in goal_tasks : r.id = response'.arg}
              kept == goal_tasks \ gone
          IN /\ Cardinality(gone) <= 1
             /\ goal_tasks' = kept
             /\ \A r \in kept : \E k \in goal_tasks' :
                   /\ k.id = r.id /\ k.goal_id = r.goal_id /\ k.title = r.title
                   /\ k.sort_order = r.sort_order /\ k.completed = r.completed
             /\ \A a, b \in kept :
                   (a.goal_id = b.goal_id /\ a.sort_order < b.sort_order) =>
                      \E x, y \in goal_tasks' :
                         x.id = a.id /\ y.id = b.id /\ x.sort_order < y.sort_order
             /\ goals' = goals /\ goal_updates' = goal_updates /\ insights' = insights
             /\ OtherTables' = OtherTables
      ]_vars

\* the middle one of three tasks of a goal was deleted; the first, ticked, and the
\* third are left with sort orders 0 and 2
C11_Witness ==
    /\ response.op = "delete_goal_task" /\ response.arg = 2
    /\ \E a, b \in goal_tasks :
          /\ a.goal_id = b.goal_id
          /\ a.id = 1 /\ a.sort_order = 0 /\ a.completed = 1
          /\ b.id = 3 /\ b.sort_order = 2
          /\ goal_tasks = {a, b}

(***************************************************************************)
(* _build_context (insights.py).  The text returned is the sequence of the *)
(* parts joined by "\n"; a part is [line, args]: the fixed text of its     *)
(* f-string and the record of the values formatted into it.  Rows that     *)
(* ORDER BY leaves tied come in any order.                                 *)
(***************************************************************************)
Part(line, args) == [line |-> line, args |-> args]

\* a part with nothing formatted into it
Heading == [fixed |-> TRUE]

\* the sequences ORDER BY may return for the rows S
Orderings(S, Before(_, _)) ==
    {s \in [1..Cardinality(S) -> S] :
        \A i, j \in 1..Cardinality(S) : i < j => (s[i] # s[j] /\ ~Before(s[j], s[i]))}

\* the parts of a sequence of sequences of parts, in order
RECURSIVE Flatten(_)
Flatten(ss) == IF ss = <<>> THEN <<>> ELSE Head(ss) \o Flatten(Tail(ss))

\* line 27: since = (date.today() - timedelta(days=days)).isoformat()
Since(now, days) == isoformat(minus_days(now, days))

\* lines 30-34: the rows an answer joins to
JoinAnswer(ca, since) ==
    {[rowid |-> ca.id, date |-> ci.date, text |-> questions[i].id,
      type |-> questions[i].type, is_core |-> questions[i].is_core,
      answer_text |-> ca.answer_text, answer_score |-> ca.answer_score] :
        ci \in {c \in check_ins : c.id = ca.check_in_id /\ ~TextLess(c.date, since)},
        i \in {k \in DOMAIN questions : questions[k].id = ca.question_id}}

\* lines 28-39: SELECT ... FROM check_in_answers ca JOIN check_ins ci JOIN questions q
\* WHERE ci.date >= ?
AnswerRows(since) == UNION {JoinAnswer(ca, since) : ca \in check_in_answers}

\* line 35: ORDER BY ci.date DESC, q.is_core DESC
AnswerBefore(a, b) ==
    \/ TextLess(b.date, a.date)
    \/ a.date = b.date /\ a.is_core > b.is_core

\* lines 44-49: the parts of the rows from the i-th on
RECURSIVE AnswerParts(_, _, _)
AnswerParts(rows, i, current_date) ==
    IF i > Len(rows) THEN <<>>
    ELSE LET r == rows[i]
             answer == IF r.type = "score" THEN r.answer_score ELSE r.answer_text
         IN (IF r.date # current_date THEN <<Part("\n### ", [date |-> r.date])>>
             ELSE <<>>)
            \o <<Part("- : ", [text |-> r.text, answer |-> answer])>>
            \o AnswerParts(rows, i + 1, r.date)

\* lines 41-49
CheckinSection(rows) ==
    IF rows # <<>>
    THEN <<Part("## Recente check-ins", Heading)>> \o AnswerParts(rows, 1, <<>>)
    ELSE <<>>

\* line 56: ORDER BY year DESC, week_number DESC
ReviewBefore(a, b) ==
    \/ a.year > b.year
    \/ a.year = b.year /\ a.week_number > b.week_number

\* line 57: LIMIT 4
Limit(rows, n) == SubSeq(rows, 1, Min(n, Len(rows)))

\* the truth value Python gives a column value
Truthy(v) ==
    IF v = Null THEN FALSE
    ELSE IF "int" \in DOMAIN v THEN v.int # 0
    ELSE IF "real" \in DOMAIN v THEN v.real # 0
    ELSE v.text # ""

\* lines 65-73: the parts of one review
ReviewParts(r) ==
    <<Part("\n### Week  ()", [week_number |-> r.week_number, year |-> r.year])>>
    \o (IF Truthy(r.score) THEN <<Part("- Score: /10", [score |-> r.score])>> ELSE <<>>)
    \o (IF Truthy(r.went_well)
        THEN <<Part("- Ging goed: ", [went_well |-> r.went_well])>> ELSE <<>>)
    \o (IF Truthy(r.improve) THEN <<Part("- Verbeteren: ", [improve |-> r.improve])>> ELSE <<>>)
    \o (IF Truthy(r.priorities_next_week)
        THEN <<Part("- Prioriteiten: ",
                   [priorities_next_week |-> r.priorities_next_week])>> ELSE <<>>)

\* lines 62-73
ReviewSection(reviews) ==
    IF reviews # <<>>
    THEN <<Part("\n## Recente weekreviews", Heading)>>
         \o Flatten([i \in 1..Len(reviews) |-> ReviewParts(reviews[i])])
    ELSE <<>>

\* a SELECT of the goals of every status
ActiveGoals_all == goals

\* lines 76-79: SELECT ... FROM goals WHERE status = 'active'
ActiveGoals == {g \in goals : g.status = "active"}

\* the place of a goal's type and quarter in the order of TEXT values, NULL first
TypeRank(t) == IF t = "quarterly" THEN 0 ELSE 1

QuarterRank(q) ==
    CASE q = None -> 0 [] q = "Q1" -> 1 [] q = "Q2" -> 2 [] q = "Q3" -> 3 [] OTHER -> 4

\* line 77: ORDER BY type, year, quarter
GoalBefore(a, b) ==
    \/ TypeRank(a.type) < TypeRank(b.type)
    \/ /\ a.type = b.type
       /\ \/ a.year < b.year
          \/ a.year = b.year /\ QuarterRank(a.quarter) < QuarterRank(b.quarter)

\* line 92: ORDER BY sort_order
TaskBefore(a, b) == a.sort_order < b.sort_order

\* lines 91-95: the tasks of a goal, out of all tasks in an order ORDER BY allows
RECURSIVE TasksOf(_, _)
TasksOf(tasks, goal_id) ==
    IF tasks = <<>> THEN <<>>
    ELSE (IF Head(tasks).goal_id = goal_id THEN <<Head(tasks)>> ELSE <<>>)
         \o TasksOf(Tail(tasks), goal_id)

\* lines 96-98
TaskPart(t) == Part("  [] ", [status |-> IF t.completed # 0 THEN "x" ELSE " ", title |-> t.title])

\* lines 84-98: the parts of one goal
GoalParts(g, tasks) ==
    <<Part("- [ ] ", [type |-> g.type, year |-> g.year, quarter |-> g.quarter,
                     title |-> g.title])>>
    \o (IF g.description \notin {None, ""}
        THEN <<Part("  ", [description |-> g.description])>> ELSE <<>>)
    \o [i \in 1..Len(tasks) |-> TaskPart(tasks[i])]

\* lines 81-98
GoalSection(rows, tasks) ==
    IF rows # <<>>
    THEN <<Part("\n## Actieve doelen", Heading)>>
         \o Flatten([i \in 1..Len(rows) |-> GoalParts(rows[i], TasksOf(tasks, rows[i].id))])
    ELSE <<>>

\* lines 101-111: SELECT ... FROM tracker_entries te JOIN trackers t WHERE te.date >= ?
EntryRows(since) ==
    UNION {{[rowid |-> te.id, name |-> t.name, unit |-> t.unit, date |-> te.date,
             value |-> te.value] :
               t \in {x \in trackers : x.id = te.tracker_id}} :
           te \in {e \in tracker_entries : ~TextLess(e.date, since)}}

\* line 107: ORDER BY t.name, te.date DESC; the trackers of the model have one name
EntryBefore(a, b) == a.name = b.name /\ TextLess(b.date, a.date)

\* lines 116-121: the parts of the rows from the i-th on
RECURSIVE EntryParts(_, _, _)
EntryParts(rows, i, current_tracker) ==
    IF i > Len(rows) THEN <<>>
    ELSE LET r == rows[i]
             name == [name |-> r.name, unit |-> r.unit]
         IN (IF name # current_tracker THEN <<Part("\n### ", name)>> ELSE <<>>)
            \o <<Part("- : ", [date |-> r.date, value |-> r.value])>>
            \o EntryParts(rows, i + 1, name)

\* lines 113-121
TrackerSection(rows) ==
    IF rows # <<>>
    THEN <<Part("\n## Tracker data", Heading)>> \o EntryParts(rows, 1, Null)
    ELSE <<>>

Placeholder == <<Part("Nog geen data beschikbaar.", Heading)>>

\* _build_context(db, days), lines 22-123: the texts it may return
build_context(now, days) ==
    LET since == Since(now, days) IN
    {LET parts == CheckinSection(answers) \o ReviewSection(Limit(reviews, 4))
                  \o GoalSection(rows, tasks) \o TrackerSection(entries)
     IN IF parts # <<>> THEN parts ELSE Placeholder :
        answers \in Orderings(AnswerRows(since), AnswerBefore),
        reviews \in Orderings(week_reviews, ReviewBefore),
        rows \in Orderings(ActiveGoals, GoalBefore),
        tasks \in Orderings(goal_tasks, TaskBefore),
        entries \in Orderings(EntryRows(since), EntryBefore)}

(***************************************************************************)
(* ask (insights.py) and ask_insight (web.py).  The call of the language   *)
(* model is the environment's: it returns a text or raises.                *)
(***************************************************************************)
MaxInsights == 2

\* the outcomes of client.messages.create and response.content[0].text,
\* insights.py lines 130-142
Outcomes == {[ok |-> TRUE, text |-> "advice"], [ok |-> FALSE, text |-> "APIError"]}

\* an INSERT that starts the log afresh
InsertInsight_afresh(table, id, prompt, answer) ==
    {[id |-> id, prompt |-> prompt, response |-> answer, context_type |-> "general"]}

\* web.py lines 689-692: INSERT INTO insights (prompt, response, context_type)
InsertInsight(table, id, prompt, answer) ==
    table \cup {[id |-> id, prompt |-> prompt, response |-> answer,
                 context_type |-> "general"]}

\* ask_insight, web.py lines 677-697, with ask, insights.py lines 126-142
AskInsight(data, outcome) ==
    LET question == IF "question" \in DOMAIN data THEN data["question"] ELSE ""
        id == seq["insights"] + 1
    IN /\ (question # "" /\ outcome.ok) => seq["insights"] < MaxInsights
       /\ IF question = ""
          THEN /\ response' = [op |-> "ask_insight", status |-> "400", question |-> question,
                               calls |-> 0, answer |-> Null, context |-> <<>>]
               /\ UNCHANGED <<insights, seq>>
          ELSE \E context \in build_context(today, 30) :
                  /\ response' = [op |-> "ask_insight",
                                  status |-> IF outcome.ok THEN "200" ELSE outcome.text,
                                  question |-> question, calls |-> 1,
                                  answer |-> IF outcome.ok THEN Text(outcome.text) ELSE Null,
                                  context |-> context]
                  /\ IF outcome.ok
                     THEN /\ insights' = InsertInsight(insights, id, question, outcome.text)
                          /\ seq' = [seq EXCEPT !["insights"] = id]
                     ELSE UNCHANGED <<insights, seq>>
       /\ UNCHANGED <<OtherTables, goals, goal_updates, goal_tasks>>
       /\ UNCHANGED <<streakVars, questionVars, connVars, today, entered, saved>>

(***************************************************************************)
(* SpecInsights: questions asked of the coach while check-ins, a week      *)
(* review and a goal with its tasks come into the store                    *)
(***************************************************************************)
\* the days before the epoch an earlier check-in may date from: none, the first day
\* of the 30-day window, the day before it
EarlierDays == {0, 30, 31}

\* the store after one check-in (energy 5, tracker "steps" 5) made n days before
\* the epoch
EarlierCheckin(n) ==
    LET date == isoformat(minus_days(Epoch, n)) IN
    /\ check_ins = {[id |-> 1, date |-> date, completed |-> 1]}
    /\ check_in_answers = {[id |-> 1, check_in_id |-> 1, question_id |-> 1,
                            answer_text |-> Null, answer_score |-> Integer(5)]}
    /\ trackers = {FirstTracker}
    /\ tracker_entries = {[id |-> 1, tracker_id |-> 1, date |-> date, value |-> Real(50)]}
    /\ seq = [t \in DOMAIN NoSequences |->
                 IF t \in {"check_ins", "check_in_answers", "trackers", "tracker_entries"}
                 THEN 1 ELSE 0]
    /\ entered = (<<1, date>> :> "5")
    /\ saved = (date :> {<<1, "score", "5">>})

InitInsights ==
    /\ today = Epoch
    /\ questions = SeedQuestions
    /\ mt = <<>> /\ calls = {}
    /\ IdleStreak /\ IdleGoals /\ IdleConns
    /\ week_reviews = {} /\ daily_tasks = {}
    /\ response = [op |-> "none"]
    /\ \E n \in EarlierDays :
          IF n = 0
          THEN /\ check_ins = {} /\ check_in_answers = {} /\ trackers = {}
               /\ tracker_entries = {} /\ seq = NoSequences
               /\ entered = <<>> /\ saved = <<>>
          ELSE EarlierCheckin(n)

\* the forms and bodies of the requests
InsightCheckinForms ==
    {[q |-> <<>>, type |-> <<>>, task |-> {}, tracker |-> <<>>],
     [q |-> (2 :> "a"), type |-> (2 :> "open"), task |-> {}, tracker |-> (1 :> "7")]}

InsightWeekForms ==
    {[score |-> "7", went_well |-> "a", improve |-> "", on_track_goals |-> None,
      priorities_next_week |-> ""]}

InsightGoalForms ==
    {[title |-> "run", description |-> "", type |-> "quarterly", quarter |-> "Q1",
      year |-> "7"]}

InsightGoalData == {[k \in {"status"} |-> "completed"]}

InsightTaskForms == {[title |-> "a"]}

InsightData == {<<>>, [k \in {"question"} |-> ""], [k \in {"question"} |-> "why"]}

NextInsights ==
    \/ \E data \in InsightData : \E outcome \in Outcomes : AskInsight(data, outcome)
    \/ \E form \in InsightCheckinForms : SaveCheckin(form)
    \/ \E form \in InsightWeekForms : SaveWeekreview(form)
    \/ \E form \in InsightGoalForms : CreateGoal(form)
    \/ \E data \in InsightGoalData : UpdateGoal(1, data)
    \/ \E form \in InsightTaskForms : AddGoalTask(1, form)

SpecInsights == InitInsights /\ [][NextInsights]_vars

\* what the contract calls data: rows of check-ins and tracker entries within the
\* trailing 30 days, week reviews, goals
InWindow(date) == ~TextLess(date, Since(today, 30))

HasCheckins == \E c \in check_ins : InWindow(c.date)

HasReviews == week_reviews # {}

HasGoals == goals # {}

HasEntries == \E e \in tracker_entries : InWindow(e.date)

HasSection(context, heading) == \E i \in DOMAIN context : context[i].line = heading

SectionHeadings ==
    {"## Recente check-ins", "\n## Recente weekreviews", "\n## Actieve doelen",
     "\n## Tracker data"}

\* C12 (as stated): _build_context returns the fixed placeholder when the store is empty; it
\* returns non-empty text that starts with a section heading, not the placeholder,
\* whenever check-ins, week reviews, goals or tracker entries have a row within the
\* window; and the section of a kind with no data is left out.
C12_ContextSections ==
    [][(response'.op = "ask_insight" /\ response'.calls = 1) =>
          LET context == response'.context IN
          /\ (~HasCheckins /\ ~HasReviews /\ ~HasGoals /\ ~HasEntries /\ check_ins = {}
              /\ tracker_entries = {})
                => context = Placeholder
          /\ (HasCheckins \/ HasReviews \/ HasGoals \/ HasEntries)
                => /\ context # Placeholder
                   /\ context # <<>>
                   /\ context[1].line \in SectionHeadings
          /\ ~HasCheckins => ~HasSection(context, "## Recente check-ins")
          /\ ~HasReviews => ~HasSection(context, "\n## Recente weekreviews")
          /\ ~HasGoals => ~HasSection(context, "\n## Actieve doelen")
          /\ ~HasEntries => ~HasSection(context, "\n## Tracker data")
      ]_vars

\* what the sections are made of: answers of check-ins within the window, week
\* reviews, active goals, tracker entries within the window
HasAnswers ==
    \E a \in check_in_answers : \E c \in check_ins :
        a.check_in_id = c.id /\ InWindow(c.date)

HasActiveGoals == \E g \in goals : g.status = "active"

\* C12 (as amended): _build_context returns the fixed placeholder exactly when
\* there is no answer of a check-in dated within the window, no week review, no
\* active goal and no tracker entry dated within the window; otherwise it returns
\* non-empty text that starts with a section heading, and each of the four sections
\* is there exactly when its kind has such data.
C12_ContextSectionsOfData ==
    [][(response'.op = "ask_insight" /\ response'.calls = 1) =>
          LET context == response'.context IN
          /\ context # <<>>
          /\ (context = Placeholder) <=>
                (~HasAnswers /\ ~HasReviews /\ ~HasActiveGoals /\ ~HasEntries)
          /\ context # Placeholder => context[1].line \in SectionHeadings
          /\ HasSection(context, "## Recente check-ins") <=> HasAnswers
          /\ HasSection(context, "\n## Recente weekreviews") <=> HasReviews
          /\ HasSection(context, "\n## Actieve doelen") <=> HasActiveGoals
          /\ HasSection(context, "\n## Tracker data") <=> HasEntries
      ]_vars

\* with the earlier check-in on the first day of the window, today's check-in
\* without answers and a goal that is completed, the text has the check-in and
\* tracker sections and no goal section
C12_Witness ==
    /\ response.op = "ask_insight" /\ response.calls = 1
    /\ Cardinality(check_ins) = 2
    /\ \E c \in check_ins : c.date = isoformat(today) /\ AnswersOf(c) = {}
    /\ \E c \in check_ins : c.date = Since(today, 30) /\ AnswersOf(c) # {}
    /\ goals # {} /\ ~HasActiveGoals
    /\ HasSection(response.context, "## Recente check-ins")
    /\ HasSection(response.context, "\n## Tracker data")
    /\ ~HasSection(response.context, "\n## Actieve doelen")
    /\ ~HasSection(response.context, "\n## Recente weekreviews")

(***************************************************************************)
(* Daily tasks and the tracker switch (web.py)                             *)
(***************************************************************************)
\* add_daily_task, lines 544-560: form.get("title", "").strip(), the date of the
\* form or today
AddDailyTask(form) ==
    LET title == IF form.title = None THEN "" ELSE Strip(form.title)
        task_date == IF form.date = None THEN isoformat(today) ELSE form.date
        id == seq["daily_tasks"] + 1
    IN /\ IF title = ""
          THEN UNCHANGED <<daily_tasks, seq>>
          ELSE /\ daily_tasks' = daily_tasks \cup
                     {[id |-> id, title |-> title, date |-> task_date, completed |-> 0,
                       check_in_id |-> Null]}
               /\ seq' = [seq EXCEPT !["daily_tasks"] = id]
       /\ response' = [op |-> "add_daily_task", status |-> "303", arg |-> form.title]
       /\ UNCHANGED <<week_reviews, check_ins, check_in_answers, trackers,
                      tracker_entries>>
       /\ UNCHANGED <<streakVars, questionVars, goalVars, connVars, today, entered, saved>>

\* toggle_daily_task, lines 563-574
ToggleDailyTask(task_id) ==
    /\ daily_tasks' = ToggleCompleted(daily_tasks, task_id)
    /\ response' = [op |-> "toggle_daily_task", status |-> "200", arg |-> task_id]
    /\ UNCHANGED <<week_reviews, check_ins, check_in_answers, trackers,
                   tracker_entries, seq>>
    /\ UNCHANGED <<streakVars, questionVars, goalVars, connVars, today, entered, saved>>

\* delete_daily_task, lines 577-585
DeleteDailyTask(task_id) ==
    /\ daily_tasks' = DeleteRow(daily_tasks, task_id)
    /\ response' = [op |-> "delete_daily_task", status |-> "200", arg |-> task_id]
    /\ UNCHANGED <<week_reviews, check_ins, check_in_answers, trackers,
                   tracker_entries, seq>>
    /\ UNCHANGED <<streakVars, questionVars, goalVars, connVars, today, entered, saved>>

\* toggle_tracker, lines 632-643: UPDATE trackers SET active = CASE WHEN active = 0
\* THEN 1 ELSE 0 END WHERE id = ?
ToggleTracker(tracker_id) ==
    /\ trackers' = {IF t.id = tracker_id
                    THEN [t EXCEPT !.active = IF @ = 0 THEN 1 ELSE 0] ELSE t :
                       t \in trackers}
    /\ response' = [op |-> "toggle_tracker", status |-> "200", arg |-> tracker_id]
    /\ UNCHANGED <<week_reviews, check_ins, check_in_answers, daily_tasks,
                   tracker_entries, seq>>
    /\ UNCHANGED <<streakVars, questionVars, goalVars, connVars, today, entered, saved>>

(***************************************************************************)
(* SpecAdmin: goals, tasks and trackers made, changed and deleted, by ids  *)
(* that exist and by ids that do not                                       *)
(***************************************************************************)
\* the rows one run makes in all
MaxAdminRows == 2

RowsMade ==
    seq["goals"] + seq["goal_updates"] + seq["goal_tasks"] + seq["daily_tasks"]
        + seq["trackers"]

\* the forms of add_daily_task: the title missing, blank or given
DailyTaskForms == [title : {None, "", " ", "call"}, date : {None}]

GoalUpdateForms == [note : {"ok"}]

GoalData == {[k \in {"status"} |-> "completed"]}

\* the ids a request names: those of the rows there can be and one beyond
GoalIds == 1..(MaxGoals + 1)

TaskIds == 1..(MaxAdminRows + 1)

InitAdmin ==
    /\ today = Epoch
    /\ questions = SeedQuestions
    /\ mt = <<>> /\ calls = {}
    /\ IdleStreak /\ IdleStore /\ IdleRequests

NextAdmin ==
    \/ RowsMade < MaxAdminRows /\ \E form \in GoalForms : CreateGoal(form)
    \/ \E goal_id \in GoalIds : \E data \in GoalData : UpdateGoal(goal_id, data)
    \/ RowsMade < MaxAdminRows
          /\ \E goal_id \in GoalIds : \E form \in GoalUpdateForms :
                AddGoalUpdate(goal_id, form)
    \/ RowsMade < MaxAdminRows
          /\ \E goal_id \in GoalIds : \E form \in GoalTaskForms : AddGoalTask(goal_id, form)
    \/ \E task_id \in TaskIds : ToggleGoalTask(task_id)
    \/ \E task_id \in TaskIds : DeleteGoalTask(task_id)
    \/ RowsMade < MaxAdminRows /\ \E form \in DailyTaskForms : AddDailyTask(form)
    \/ \E task_id \in TaskIds : ToggleDailyTask(task_id)
    \/ \E task_id \in TaskIds : DeleteDailyTask(task_id)
    \/ RowsMade < MaxAdminRows /\ \E form \in TrackerForms : CreateTracker(form)
    \/ \E tracker_id \in TaskIds : ToggleTracker(tracker_id)
    \/ \E tracker_id \in TaskIds : DeleteTracker(tracker_id)

SpecAdmin == InitAdmin /\ [][NextAdmin]_vars

\* the id the request names is that of no row, in the state the request finds
MissingId(r) ==
    CASE r.op \in {"toggle_goal_task", "delete_goal_task"} ->
            \A t \in goal_tasks : t.id # r.arg
      [] r.op \in {"toggle_daily_task", "delete_daily_task"} ->
            \A t \in daily_tasks : t.id # r.arg
      [] r.op \in {"toggle_tracker", "delete_tracker"} ->
            \A t \in trackers : t.id # r.arg
      [] r.op \in {"update_goal", "add_goal_update", "add_goal_task"} ->
            \A g \in goals : g.id # r.arg
      [] OTHER -> FALSE

\* C13: an operation that references a missing id (toggling or deleting a goal task,
\* daily task or tracker, updating a goal, adding a task or an update to a goal)
\* fails (with a NotFoundError): it never reports success, neither 200 nor the
\* redirect 303, and leaves the store unchanged.
C13_MissingIdIsNotFound ==
    [][MissingId(response') =>
          /\ response'.status \notin {"200", "303"}
          /\ storeVars' = storeVars
      ]_vars

\* the title or name the creation request gives is missing or blank
BlankTitle(r) ==
    CASE r.op \in {"create_goal", "add_daily_task", "create_tracker"} ->
            r.arg \in {None, "", " "}
      [] r.op = "add_goal_task" -> r.title \in {None, "", " "}
      [] OTHER -> FALSE

\* C14: a creation request (add_goal_task, add_daily_task, create_tracker,
\* create_goal) whose required title or name is missing or blank fails (with a
\* ValidationError that reaches the caller): it does not report success, neither
\* 200 nor the redirect 303, and no row is created.
C14_BlankTitleIsValidationError ==
    [][BlankTitle(response') =>
          /\ response'.status \notin {"200", "303"}
          /\ storeVars' = storeVars
      ]_vars

NeedsSeed_always(table) == TRUE

\* lines 134-137: SELECT COUNT(*) FROM questions; return if row[0] > 0
NeedsSeed(table) == Len(table) = 0

\* lines 166-169: executemany INSERT INTO questions, the ids going on from the
\* rows there are
InsertSeed(table) ==
    table \o [i \in DOMAIN SeedRows |->
                 [id |-> Len(table) + i, type |-> SeedRows[i][1],
                  category |-> SeedRows[i][2], is_core |-> SeedRows[i][3],
                  active |-> 1]]

\* init_db, lines 123-130
InitDb ==
    /\ questions' = IF NeedsSeed(questions) THEN InsertSeed(questions) ELSE questions
    /\ response' = [op |-> "init_db", status |-> "ok"]
    /\ UNCHANGED <<mt, calls, streakVars, storeVars, connVars, today, entered, saved>>

(***************************************************************************)
(* SpecSeed: the application started again and again, over a questions     *)
(* table that is empty or holds rows, with trackers made and deleted in    *)
(* between                                                                 *)
(***************************************************************************)
InitSeed ==
    /\ \E n \in 0..MaxQuestions : \E kinds \in [1..n -> QuestionKinds] :
          questions = WithIds(kinds)
    /\ mt = <<>> /\ calls = {}
    /\ today = Epoch
    /\ IdleStreak /\ IdleStore /\ IdleRequests

NextSeed ==
    \/ InitDb
    \/ \E form \in TrackerForms : CreateTracker(form)
    \/ \E tracker_id \in 1..MaxTrackers : DeleteTracker(tracker_id)

SpecSeed == InitSeed /\ [][NextSeed]_vars

\* the number of rows of a table of a category and a core flag
CountOf(table, category, is_core) ==
    Cardinality({i \in DOMAIN table :
                    table[i].category = category /\ table[i].is_core = is_core})

\* C16: init_db inserts the seed set (2 core daily, 13 non-core daily, 5 weekly
\* questions) only when the questions table is empty: a run over an empty table
\* leaves exactly one copy of the set, a run over a table that holds at least one
\* question inserts nothing, so no number of runs leaves more than one copy; the
\* other tables are not touched.
C16_SeededExactlyOnce ==
    [][response'.op = "init_db" =>
          /\ Len(questions) = 0 =>
                /\ Len(questions') = 20
                /\ CountOf(questions', "daily", 1) = 2
                /\ CountOf(questions', "daily", 0) = 13
                /\ CountOf(questions', "weekly", 1) = 5
                /\ \A i, j \in DOMAIN questions' :
                      questions'[i].id = questions'[j].id => i = j
          /\ Len(questions) > 0 => questions' = questions
          /\ storeVars' = storeVars
      ]_vars

\* the application started over an empty table, a tracker was made, and it started
\* again: the table holds the 20 seed questions
C16_Witness ==
    /\ response.op = "init_db"
    /\ trackers # {}
    /\ Len(questions) = 20
    /\ CountOf(questions, "daily", 1) = 2

(***************************************************************************)
(* Two save_checkin requests at once, each on its own connection           *)
(* (database.py get_db, journal_mode=WAL).  A SELECT outside a transaction *)
(* reads the committed store and is over when its one row is fetched.  The *)
(* first writing statement of a request opens the connection's transaction *)
(* and takes the store's one write lock, on the store as committed then;   *)
(* while another connection holds the lock the statement waits, and when   *)
(* the wait outlasts the connection's timeout it raises OperationalError.  *)
(* conns[p] is the request of connection p: the statement it is at, its    *)
(* form, the id its SELECT found (0 for none), the check-in it writes to,  *)
(* its transaction and its outcome.                                        *)
(***************************************************************************)
Requests == {1, 2}

\* the write lock is free
CanWrite(p) == lock = 0

\* lines 154-155: SELECT id FROM check_ins WHERE date = ?, fetchone()
SelectCheckIn(date) ==
    LET row == {c \in check_ins : c.date = date}
    IN IF row = {} THEN 0 ELSE (CHOOSE c \in row : TRUE).id

Select(p) ==
    /\ conns[p].pc = "select"
    /\ conns' = [conns EXCEPT ![p].row = SelectCheckIn(isoformat(today)),
                              ![p].pc = "write"]
    /\ UNCHANGED <<lock, storeVars, streakVars, questionVars, requestVars>>

\* lines 156-166: the DELETE of the old answers or the INSERT of the check-in, the
\* request's first write
FirstWrite(p) ==
    LET row == conns[p].row
        tx == IF row # 0 THEN DeleteAnswers(Begin, row)
              ELSE InsertCheckIn(Begin, isoformat(today))
        checkin_id == IF row # 0 THEN row ELSE seq["check_ins"] + 1
    IN /\ conns[p].pc = "write"
       /\ CanWrite(p)
       /\ lock' = p
       /\ conns' = [conns EXCEPT ![p].tx = tx,
                                 ![p].checkin_id = checkin_id,
                                 ![p].pc = IF tx.error = "" THEN "answers" ELSE "close"]
       /\ UNCHANGED <<storeVars, streakVars, questionVars, requestVars>>

\* the first write, waiting for the lock until the timeout of the connection
Busy(p) ==
    /\ conns[p].pc = "write"
    /\ ~CanWrite(p)
    /\ conns' = [conns EXCEPT ![p].pc = "done", ![p].status = "OperationalError"]
    /\ response' = [op |-> "save_checkin", status |-> "OperationalError", conn |-> p]
    /\ UNCHANGED <<lock, storeVars, streakVars, questionVars, today, entered, saved>>

\* lines 169-210: the answers, tasks and tracker entries of the form, and the
\* completed mark
InsertAnswers(p) ==
    LET form == conns[p].form
        checkin_id == conns[p].checkin_id
        answered == AnswersLoop(conns[p].tx, form, checkin_id, Ascending(DOMAIN form.q))
        ticked == TasksLoop(answered, checkin_id, Ascending(form.task))
        tracked == TrackersLoop(ticked, form, isoformat(today),
                                Ascending(DOMAIN form.tracker))
        tx == MarkCompleted(tracked, checkin_id)
    IN /\ conns[p].pc = "answers"
       /\ conns' = [conns EXCEPT ![p].tx = tx,
                                 ![p].pc = IF tx.error = "" THEN "commit" ELSE "close"]
       /\ UNCHANGED <<lock, storeVars, streakVars, questionVars, requestVars>>

\* line 211: db.commit()
Commit(p) ==
    LET tx == conns[p].tx
    IN /\ conns[p].pc = "commit"
       /\ check_ins' = tx.check_ins
       /\ check_in_answers' = tx.check_in_answers
       /\ daily_tasks' = tx.daily_tasks
       /\ tracker_entries' = tx.tracker_entries
       /\ seq' = tx.seq
       /\ lock' = 0
       /\ conns' = [conns EXCEPT ![p].pc = "done", ![p].status = "303"]
       /\ response' = [op |-> "save_checkin", status |-> "303", conn |-> p]
       /\ UNCHANGED <<week_reviews, trackers, goalVars>>
       /\ UNCHANGED <<streakVars, questionVars, today, entered, saved>>

\* lines 214-215 after an exception: db.close() rolls the transaction back
Rollback(p) ==
    /\ conns[p].pc = "close"
    /\ lock' = 0
    /\ conns' = [conns EXCEPT ![p].pc = "done", ![p].status = conns[p].tx.error]
    /\ response' = [op |-> "save_checkin", status |-> conns[p].tx.error, conn |-> p]
    /\ UNCHANGED <<storeVars, streakVars, questionVars, today, entered, saved>>

(***************************************************************************)
(* SpecConcurrent: two save_checkin requests of one day, on a store with   *)
(* or without a check-in of that day                                       *)
(***************************************************************************)
\* the forms of the two requests; the third names a question that does not exist
ConcurrentForms ==
    {[q |-> (1 :> "5") @@ (2 :> "a"), type |-> (1 :> "score") @@ (2 :> "open"),
      task |-> {}, tracker |-> <<>>],
     [q |-> (1 :> "7") @@ (2 :> "b"), type |-> (1 :> "score") @@ (2 :> "open"),
      task |-> {}, tracker |-> <<>>],
     [q |-> (1 :> "5") @@ (21 :> "a"), type |-> (1 :> "score"),
      task |-> {}, tracker |-> <<>>]}

\* the check-in and the answer an earlier save of the day left
EarlierCheckIn == [id |-> 1, date |-> isoformat(Epoch), completed |-> 1]

EarlierAnswer ==
    [id |-> 1, check_in_id |-> 1, question_id |-> 2, answer_text |-> Text("old"),
     answer_score |-> Null]

InitConcurrent ==
    /\ today = Epoch
    /\ questions = SeedQuestions
    /\ mt = <<>> /\ calls = {}
    /\ IdleStreak /\ IdleGoals
    /\ response = [op |-> "none"] /\ entered = <<>> /\ saved = <<>>
    /\ week_reviews = {} /\ daily_tasks = {} /\ trackers = {} /\ tracker_entries = {}
    /\ \E made \in BOOLEAN :
          /\ check_ins = IF made THEN {EarlierCheckIn} ELSE {}
          /\ check_in_answers = IF made THEN {EarlierAnswer} ELSE {}
    /\ seq = [t \in DOMAIN NoSequences |->
                 IF t \in {"check_ins", "check_in_answers"}
                 THEN Cardinality(check_ins) ELSE 0]
    /\ lock = 0
    /\ \E forms \in [Requests -> ConcurrentForms] :
          conns = [p \in Requests |->
                      [pc |-> "select", form |-> forms[p], row |-> 0, checkin_id |-> 0,
                       tx |-> Begin, status |-> ""]]

NextConcurrent ==
    \E p \in Requests :
       \/ Select(p)
       \/ FirstWrite(p)
       \/ Busy(p)
       \/ InsertAnswers(p)
       \/ Commit(p)
       \/ Rollback(p)

SpecConcurrent == InitConcurrent /\ [][NextConcurrent]_vars

\* the columns of the answers of a check-in
ContentOf(c) == {<<a.question_id, a.answer_text, a.answer_score>> : a \in AnswersOf(c)}

\* the columns the non-empty q_ fields of a form are to leave
ContentOfForm(form) == {ExpectedAnswer(s) : s \in NonEmptyAnswers(form)}

\* the columns of the answer the earlier save left
EarlierContent ==
    {<<EarlierAnswer.question_id, EarlierAnswer.answer_text, EarlierAnswer.answer_score>>}

\* C17: when two save_checkin requests for the same date run on separate
\* connections with their statements interleaved in any order, every committed
\* state has at most one check_ins row for that date, and the answers attached to
\* it are those of a single submission (one of the two, or the earlier save they
\* replace), never a mixture of both.
C17_OneCheckInOneSubmission ==
    /\ \A c1, c2 \in check_ins : c1.date = c2.date => c1 = c2
    /\ \A c \in check_ins :
          /\ ContentOf(c) \in {ContentOfForm(conns[p].form) : p \in Requests}
                                 \cup {EarlierContent}
          /\ Cardinality(AnswersOf(c)) = Cardinality(ContentOf(c))

\* both requests found the check-in of the day and committed, one after the other;
\* the answers are those of the second alone
C17_Witness ==
    /\ \A p \in Requests : conns[p].pc = "done" /\ conns[p].status = "303"
    /\ conns[1].row = 1 /\ conns[2].row = 1
    /\ ContentOfForm(conns[1].form) # ContentOfForm(conns[2].form)
    /\ response.conn = 2
    /\ \E c \in check_ins :
          /\ check_ins = {c}
          /\ ContentOf(c) = ContentOfForm(conns[2].form)

(***************************************************************************)
(* add_goal_task requests at once, each on its own connection.  The SELECT *)
(* of the next sort order (web.py lines 501-505) runs outside a            *)
(* transaction and reads the committed store; the INSERT opens the         *)
(* transaction, takes the write lock and is followed at once by the commit *)
(* (lines 506-510), so the other connections see the two as one step.      *)
(* conns[p] holds the goal, the title and the sort order the SELECT gave.  *)
(***************************************************************************)
\* the requests under way between their SELECT and their INSERT
Pending == {p \in DOMAIN conns : conns[p].pc = "insert"}

\* lines 495-505: the form, the blank title turned away, the SELECT
ReadNextOrder(p, goal_id, form) ==
    LET title == Strip(form.title)
    IN /\ conns[p].pc = "idle"
       /\ seq["goal_tasks"] + Cardinality(Pending) < MaxGoalTasks
       /\ IF title = ""
          THEN /\ response' = [op |-> "add_goal_task", status |-> "303",
                               arg |-> goal_id, title |-> form.title]
               /\ UNCHANGED conns
          ELSE /\ conns' = [conns EXCEPT ![p] =
                               [pc |-> "insert", goal_id |-> goal_id, title |-> title,
                                next_order |-> NextSortOrder(goal_tasks, goal_id)]]
               /\ UNCHANGED response
       /\ UNCHANGED <<lock, storeVars, streakVars, questionVars, today, entered, saved>>

\* lines 506-513: the INSERT with the sort order read before, and the commit
InsertAndCommit(p) ==
    LET id == seq["goal_tasks"] + 1
        goal_id == conns[p].goal_id
        found == \E g \in goals : g.id = goal_id
    IN /\ conns[p].pc = "insert"
       /\ CanWrite(p)
       /\ IF found
          THEN /\ goal_tasks' = InsertGoalTask(goal_tasks, id, goal_id, conns[p].title,
                                               conns[p].next_order)
               /\ seq' = [seq EXCEPT !["goal_tasks"] = id]
          ELSE UNCHANGED <<goal_tasks, seq>>
       /\ conns' = [conns EXCEPT ![p] = [pc |-> "idle"]]
       /\ response' = [op |-> "add_goal_task",
                       status |-> IF found THEN "303" ELSE "IntegrityError",
                       arg |-> goal_id, title |-> conns[p].title]
       /\ UNCHANGED <<OtherTables, goals, goal_updates, insights, lock>>
       /\ UNCHANGED <<streakVars, questionVars, today, entered, saved>>

(***************************************************************************)
(* SpecTasks: tasks added to the goals by two connections at once, ticked  *)
(* and deleted                                                             *)
(***************************************************************************)
\* the goals create_goal (web.py lines 443-446) left before the tasks
FirstGoals ==
    {[id |-> i, title |-> "run", description |-> "", type |-> "yearly",
      quarter |-> None, year |-> 7, status |-> "active"] : i \in 1..MaxGoals}

InitTasks ==
    /\ today = Epoch
    /\ questions = SeedQuestions
    /\ mt = <<>> /\ calls = {}
    /\ IdleStreak
    /\ response = [op |-> "none"] /\ entered = <<>> /\ saved = <<>>
    /\ week_reviews = {} /\ check_ins = {} /\ check_in_answers = {}
    /\ daily_tasks = {} /\ trackers = {} /\ tracker_entries = {}
    /\ goals = FirstGoals /\ goal_updates = {} /\ goal_tasks = {} /\ insights = {}
    /\ seq = [NoSequences EXCEPT !["goals"] = MaxGoals]
    /\ lock = 0
    /\ conns = [p \in Requests |-> [pc |-> "idle"]]

NextTasks ==
    \/ \E p \in Requests : \E goal_id \in 1..MaxGoals : \E form \in GoalTaskForms :
          ReadNextOrder(p, goal_id, form)
    \/ \E p \in Requests : InsertAndCommit(p)
    \/ \E task_id \in 1..MaxGoalTasks : ToggleGoalTask(task_id)
    \/ \E task_id \in 1..MaxGoalTasks : DeleteGoalTask(task_id)

SpecTasks == InitTasks /\ [][NextTasks]_vars

\* C18: add_goal_task gives the new task a sort_order strictly greater than that of
\* every existing task of the same goal, so under any interleaving of
\* add_goal_task, toggle_goal_task and delete_goal_task requests, two adds for one
\* goal whose SELECT and INSERT interleave included, the tasks of a goal always
\* have pairwise distinct sort_order values and the relative order of the tasks
\* there are never changes.
C18_DistinctSortOrders ==
    /\ [](\A a, b \in goal_tasks :
             (a.goal_id = b.goal_id /\ a.sort_order = b.sort_order) => a = b)
    /\ [][/\ \A n \in goal_tasks' : \A t \in goal_tasks :
                (n.id \notin {x.id : x \in goal_tasks} /\ t.goal_id = n.goal_id)
                   => t.sort_order < n.sort_order
          /\ \A a, b \in goal_tasks : \A x, y \in goal_tasks' :
                (x.id = a.id /\ y.id = b.id /\ a.goal_id = b.goal_id)
                   => (a.sort_order < b.sort_order <=> x.sort_order < y.sort_order)
         ]_vars

====
